---- MODULE Spec2Model ----
(***************************************************************************)
(* Model of scripts/fetch-osm-streets.py: one run of fetch_streets() is a  *)
(* straight line of steps (print bbox, fetch, print counts, convert,       *)
(* select columns, flatten, makedirs, write, report).  The upstream graph  *)
(* and the file system are the environment; the script may be run again    *)
(* after it has ended.                                                     *)
(***************************************************************************)
EXTENDS Naturals, Sequences, FiniteSets

VARIABLES
    upstream,      \* the graph the provider serves (fixed during a behaviour)
    dir,           \* OUTPUT_DIR on disk: "absent", "dir" or "notdir"
    file,          \* OUTPUT_FILE on disk
    pc,            \* the statement fetch_streets() is about to execute
    G,             \* local G
    node_count,    \* local node_count
    edge_count,    \* local edge_count
    edges_gdf,     \* local edges_gdf
    streets_gdf,   \* local streets_gdf
    feature_count, \* local feature_count
    exit_code,     \* <<>> while running, <<0>> or <<1>> once the process ended
    trace,         \* steps attempted and lines printed by this run, in order
    dir0,          \* history: dir when this run started
    file0,         \* history: file when this run started
    pre_flatten,   \* history: streets_gdf as it was when the flatten loop began
    prev_out       \* history: the file left by the run just before, if it succeeded

vars == <<upstream, dir, file, pc, G, node_count, edge_count, edges_gdf,
          streets_gdf, feature_count, exit_code, trace, dir0, file0,
          pre_flatten, prev_out>>

-----------------------------------------------------------------------------
(* Bounds *)
MaxEdges == 3
MaxNodes == 1

-----------------------------------------------------------------------------
(* Cell values: None/NaN, a scalar, a geometry, or a Python list of values *)
Null == [tag |-> "null", s |-> "", items |-> <<>>]
Str(x) == [tag |-> "scalar", s |-> x, items |-> <<>>]
Geom(x) == [tag |-> "geom", s |-> x, items |-> <<>>]
Lst(xs) == [tag |-> "list", s |-> "", items |-> xs]

\* isinstance(v, list)
IsList(v) == v.tag = "list"

\* the attribute values the provider may attach to an edge
HighwayVals ==
    { Str("primary"),
      Lst(<<Str("residential"), Str("tertiary")>>),
      Lst(<<>>),
      Lst(<<Lst(<<Str("residential")>>)>>) }

GeomVals == { Geom("g1") }

\* an edge's attribute dict: osmid and name always, geometry and highway optionally
EdgeAttrs ==
    { [c \in {"osmid", "name"} \cup gk \cup hk |->
          CASE c = "osmid"    -> Str("1")
            [] c = "name"     -> Str("Main St")
            [] c = "geometry" -> g
            [] c = "highway"  -> h ] :
        <<gk, g, hk, h>> \in
            ({{"geometry"}} \X GeomVals \X {{"highway"}} \X HighwayVals)
            \cup ({{}} \X {Null} \X {{"highway"}} \X HighwayVals)
            \cup ({{"geometry"}} \X GeomVals \X {{}} \X {Null})
            \cup ({{}} \X {Null} \X {{}} \X {Null}) }

SeqsUpTo(S, n) == UNION { [1..k -> S] : k \in 1..n }

Graphs == [nodes : 1..MaxNodes, edges : SeqsUpTo(EdgeAttrs, MaxEdges)]

-----------------------------------------------------------------------------
(* Tables (data frames) *)
NoTable == [columns |-> <<>>, rows |-> <<>>]

Range(s) == { s[i] : i \in 1..Len(s) }

\* the order in which the converter lays out the columns it finds
SrcCols == <<"osmid", "name", "highway", "geometry">>

number_of_nodes(g) == g.nodes
number_of_edges(g) == Len(g.edges)

IsKey(e, c) == c \in DOMAIN e

\* ox.graph_to_gdfs(G)[1]: one row per edge, a column per attribute key that
\* some edge carries, NaN where an edge lacks the key
graph_to_gdfs(g) ==
    LET present(c) == \E i \in 1..Len(g.edges) : IsKey(g.edges[i], c)
        cols == SelectSeq(SrcCols, present)
    IN [columns |-> cols,
        rows |-> [i \in 1..Len(g.edges) |->
                    [c \in Range(cols) |->
                        IF IsKey(g.edges[i], c) THEN g.edges[i][c] ELSE Null]]]

keep_cols == <<"geometry", "name", "highway", "lanes", "maxspeed", "oneway", "length">>

\* a variant that keeps every column of the table
available_all(t) == t.columns

\* [c for c in keep_cols if c in edges_gdf.columns]
available(t) ==
    LET InTable(c) == c \in Range(t.columns)
    IN SelectSeq(keep_cols, InTable)

\* a variant that also drops the rows holding a missing value
select_columns_dropna(t) ==
    LET Full(r) == \A c \in Range(available(t)) : r[c] # Null
    IN [columns |-> available(t),
        rows |-> [i \in 1..Len(SelectSeq(t.rows, Full)) |->
                    [c \in Range(available(t)) |-> SelectSeq(t.rows, Full)[i][c]]]]

\* edges_gdf[available].copy().reset_index(drop=True)
select_columns(t) ==
    [columns |-> available(t),
     rows |-> [i \in 1..Len(t.rows) |->
                 [c \in Range(available(t)) |-> t.rows[i][c]]]]

\* a variant that turns an empty list into a missing value
flatten_cell_empty_to_null(v) ==
    IF IsList(v) THEN (IF Len(v.items) > 0 THEN v.items[1] ELSE Null) ELSE v

\* lambda v: v[0] if isinstance(v, list) and len(v) > 0 else v
flatten_cell(v) == IF IsList(v) /\ Len(v.items) > 0 THEN v.items[1] ELSE v

\* the loop over streets_gdf.columns that skips "geometry"
flatten(t) ==
    [columns |-> t.columns,
     rows |-> [i \in 1..Len(t.rows) |->
                 [c \in Range(t.columns) |->
                     IF c = "geometry" THEN t.rows[i][c]
                     ELSE flatten_cell(t.rows[i][c])]]]

-----------------------------------------------------------------------------
(* Files *)
NoFile == [state |-> "absent", features |-> <<>>]
Partial == [state |-> "partial", features |-> <<>>]

\* a file left by some earlier, unrelated export
Stale ==
    [state |-> "complete",
     features |-> << [geometry |-> Geom("g0"),
                      properties |-> [c \in {"name"} |-> Str("Old Rd")]] >>]

\* GeoJSON: one feature per row, the geometry column becomes the feature
\* geometry and the remaining columns the properties
to_geojson(t) ==
    [state |-> "complete",
     features |-> [i \in 1..Len(t.rows) |->
        [geometry |-> IF "geometry" \in Range(t.columns)
                      THEN t.rows[i]["geometry"] ELSE Null,
         properties |-> [c \in Range(t.columns) \ {"geometry"} |-> t.rows[i][c]]]]]

\* what may be on disk before the first run
DiskStates ==
    { <<"absent", NoFile>>, <<"notdir", NoFile>>, <<"dir", NoFile>>, <<"dir", Stale>> }

-----------------------------------------------------------------------------
Init ==
    /\ upstream \in Graphs
    /\ \E fs \in DiskStates : dir = fs[1] /\ file = fs[2]
    /\ pc = "print_bbox"
    /\ G = [nodes |-> 0, edges |-> <<>>]
    /\ node_count = 0
    /\ edge_count = 0
    /\ edges_gdf = NoTable
    /\ streets_gdf = NoTable
    /\ feature_count = 0
    /\ exit_code = <<>>
    /\ trace = <<>>
    /\ dir0 = dir
    /\ file0 = file
    /\ pre_flatten = NoTable
    /\ prev_out = NoFile

\* an uncaught exception: the interpreter ends the process with status 1
Raise ==
    /\ pc' = "failed"
    /\ exit_code' = <<1>>

PrintBBox ==
    /\ pc = "print_bbox"
    /\ pc' = "fetch"
    /\ trace' = Append(trace, "print_bbox")
    /\ UNCHANGED <<upstream, dir, file, G, node_count, edge_count, edges_gdf,
                   streets_gdf, feature_count, exit_code, dir0, file0,
                   pre_flatten, prev_out>>

Fetch ==
    /\ pc = "fetch"
    /\ G' = upstream
    /\ pc' = "print_counts"
    /\ trace' = Append(trace, "fetch")
    /\ UNCHANGED <<upstream, dir, file, node_count, edge_count, edges_gdf,
                   streets_gdf, feature_count, exit_code, dir0, file0,
                   pre_flatten, prev_out>>

\* the complete sequence of steps and prints of a run
FullTrace ==
    <<"print_bbox", "fetch", "print_counts", "convert", "select", "flatten",
      "makedirs", "write", "print_wrote", "print_path", "print_size", "print_types">>

\* a variant that removes the output file when the fetch fails
FetchFail_cleanup ==
    /\ pc = "fetch"
    /\ Raise
    /\ file' = NoFile
    /\ trace' = Append(trace, "fetch")
    /\ UNCHANGED <<upstream, dir, G, node_count, edge_count, edges_gdf,
                   streets_gdf, feature_count, dir0, file0, pre_flatten, prev_out>>

\* a variant that tries the fetch again when it fails
FetchFail_retry ==
    /\ pc = "fetch"
    /\ Len(trace) < Len(FullTrace)
    /\ trace' = Append(trace, "fetch")
    /\ UNCHANGED <<upstream, dir, file, pc, G, node_count, edge_count, edges_gdf,
                   streets_gdf, feature_count, exit_code, dir0, file0,
                   pre_flatten, prev_out>>

FetchFail ==
    /\ pc = "fetch"
    /\ Raise
    /\ trace' = Append(trace, "fetch")
    /\ UNCHANGED <<upstream, dir, file, G, node_count, edge_count, edges_gdf,
                   streets_gdf, feature_count, dir0, file0, pre_flatten, prev_out>>

PrintCounts ==
    /\ pc = "print_counts"
    /\ node_count' = number_of_nodes(G)
    /\ edge_count' = number_of_edges(G)
    /\ pc' = "convert"
    /\ trace' = Append(trace, "print_counts")
    /\ UNCHANGED <<upstream, dir, file, G, edges_gdf, streets_gdf, feature_count,
                   exit_code, dir0, file0, pre_flatten, prev_out>>

Convert ==
    /\ pc = "convert"
    /\ edges_gdf' = graph_to_gdfs(G)
    /\ pc' = "select"
    /\ trace' = Append(trace, "convert")
    /\ UNCHANGED <<upstream, dir, file, G, node_count, edge_count, streets_gdf,
                   feature_count, exit_code, dir0, file0, pre_flatten, prev_out>>

Select ==
    /\ pc = "select"
    /\ streets_gdf' = select_columns(edges_gdf)
    /\ pre_flatten' = select_columns(edges_gdf)
    /\ pc' = "flatten"
    /\ trace' = Append(trace, "select")
    /\ UNCHANGED <<upstream, dir, file, G, node_count, edge_count, edges_gdf,
                   feature_count, exit_code, dir0, file0, prev_out>>

Flatten ==
    /\ pc = "flatten"
    /\ streets_gdf' = flatten(streets_gdf)
    /\ pc' = "makedirs"
    /\ trace' = Append(trace, "flatten")
    /\ UNCHANGED <<upstream, dir, file, G, node_count, edge_count, edges_gdf,
                   feature_count, exit_code, dir0, file0, pre_flatten, prev_out>>

\* os.makedirs(OUTPUT_DIR, exist_ok=True): creates the directory when absent,
\* passes when it is a directory already, raises when the path is not a
\* directory or the directory cannot be created
Makedirs ==
    /\ pc = "makedirs"
    /\ dir \in {"absent", "dir"}
    /\ dir' = "dir"
    /\ pc' = "write"
    /\ trace' = Append(trace, "makedirs")
    /\ UNCHANGED <<upstream, file, G, node_count, edge_count, edges_gdf,
                   streets_gdf, feature_count, exit_code, dir0, file0,
                   pre_flatten, prev_out>>

\* a variant without exist_ok: an existing directory raises
MakedirsFail_no_exist_ok ==
    /\ pc = "makedirs"
    /\ Raise
    /\ trace' = Append(trace, "makedirs")
    /\ UNCHANGED <<upstream, dir, file, G, node_count, edge_count, edges_gdf,
                   streets_gdf, feature_count, dir0, file0, pre_flatten, prev_out>>

MakedirsFail ==
    /\ pc = "makedirs"
    /\ dir \in {"absent", "notdir"}
    /\ Raise
    /\ trace' = Append(trace, "makedirs")
    /\ UNCHANGED <<upstream, dir, file, G, node_count, edge_count, edges_gdf,
                   streets_gdf, feature_count, dir0, file0, pre_flatten, prev_out>>

\* a variant that appends to a file that is already there
Write_append ==
    /\ pc = "write"
    /\ dir = "dir"
    /\ file' = IF file.state = "complete"
               THEN [state |-> "complete",
                     features |-> file.features \o to_geojson(streets_gdf).features]
               ELSE to_geojson(streets_gdf)
    /\ pc' = "report"
    /\ trace' = Append(trace, "write")
    /\ UNCHANGED <<upstream, dir, G, node_count, edge_count, edges_gdf,
                   streets_gdf, feature_count, exit_code, dir0, file0,
                   pre_flatten, prev_out>>

\* streets_gdf.to_file(OUTPUT_FILE, driver="GeoJSON")
Write ==
    /\ pc = "write"
    /\ dir = "dir"
    /\ file' = to_geojson(streets_gdf)
    /\ pc' = "report"
    /\ trace' = Append(trace, "write")
    /\ UNCHANGED <<upstream, dir, G, node_count, edge_count, edges_gdf,
                   streets_gdf, feature_count, exit_code, dir0, file0,
                   pre_flatten, prev_out>>

\* a variant that prints the summary line although the write failed
WriteFail_reports ==
    /\ pc = "write"
    /\ file' = file
    /\ Raise
    /\ trace' = trace \o <<"write", "print_wrote">>
    /\ UNCHANGED <<upstream, dir, G, node_count, edge_count, edges_gdf,
                   streets_gdf, feature_count, dir0, file0, pre_flatten, prev_out>>

\* the writer raises: before it opened the file, or part-way through it
WriteFail ==
    /\ pc = "write"
    /\ \/ file' = file
       \/ dir = "dir" /\ file' = Partial
    /\ Raise
    /\ trace' = Append(trace, "write")
    /\ UNCHANGED <<upstream, dir, G, node_count, edge_count, edges_gdf,
                   streets_gdf, feature_count, dir0, file0, pre_flatten, prev_out>>

\* lines 73-77: size, feature count and path
Report ==
    /\ pc = "report"
    /\ feature_count' = Len(streets_gdf.rows)
    /\ pc' = IF "highway" \in Range(streets_gdf.columns) THEN "types" ELSE "done"
    /\ exit_code' = IF "highway" \in Range(streets_gdf.columns) THEN <<>> ELSE <<0>>
    /\ trace' = trace \o <<"print_wrote", "print_path", "print_size">>
    /\ UNCHANGED <<upstream, dir, file, G, node_count, edge_count, edges_gdf,
                   streets_gdf, dir0, file0, pre_flatten, prev_out>>

\* value_counts() hashes the cells: a cell that is still a list is unhashable
Hashable(t, c) == \A i \in 1..Len(t.rows) : ~IsList(t.rows[i][c])

\* lines 80-84: the highway breakdown
ReportTypes ==
    /\ pc = "types"
    /\ Hashable(streets_gdf, "highway")
    /\ pc' = "done"
    /\ exit_code' = <<0>>
    /\ trace' = Append(trace, "print_types")
    /\ UNCHANGED <<upstream, dir, file, G, node_count, edge_count, edges_gdf,
                   streets_gdf, feature_count, dir0, file0, pre_flatten, prev_out>>

ReportTypesFail ==
    /\ pc = "types"
    /\ ~Hashable(streets_gdf, "highway")
    /\ Raise
    /\ trace' = Append(trace, "print_types")
    /\ UNCHANGED <<upstream, dir, file, G, node_count, edge_count, edges_gdf,
                   streets_gdf, feature_count, dir0, file0, pre_flatten, prev_out>>

\* the operator runs the script again
NextRun ==
    /\ pc \in {"done", "failed"}
    /\ pc' = "print_bbox"
    /\ G' = [nodes |-> 0, edges |-> <<>>]
    /\ node_count' = 0
    /\ edge_count' = 0
    /\ edges_gdf' = NoTable
    /\ streets_gdf' = NoTable
    /\ feature_count' = 0
    /\ exit_code' = <<>>
    /\ trace' = <<>>
    /\ dir0' = dir
    /\ file0' = file
    /\ pre_flatten' = NoTable
    /\ prev_out' = IF pc = "done" THEN file ELSE NoFile
    /\ UNCHANGED <<upstream, dir, file>>

Next ==
    \/ PrintBBox
    \/ Fetch
    \/ FetchFail
    \/ PrintCounts
    \/ Convert
    \/ Select
    \/ Flatten
    \/ Makedirs
    \/ MakedirsFail
    \/ Write
    \/ WriteFail
    \/ Report
    \/ ReportTypes
    \/ ReportTypesFail
    \/ NextRun

Spec == Init /\ [][Next]_vars

-----------------------------------------------------------------------------
(* Vocabulary of the properties *)
Did(step) == step \in Range(trace)

Last(q) == q[Len(q)]

\* the run ended in the step named
FailedAt(step) == pc = "failed" /\ trace # <<>> /\ Last(trace) = step

\* the write step of this run has completed
WriteDone == pc \in {"report", "types", "done"} \/ FailedAt("print_types")

\* the flatten loop of this run has completed
FlattenDone == Did("flatten")

IsPrefix(p, q) == Len(p) <= Len(q) /\ \A i \in 1..Len(p) : p[i] = q[i]

NonGeometry(t) == Range(t.columns) \ {"geometry"}

SummaryItems == {"print_wrote", "print_path", "print_size", "print_types"}
ReportItems == SummaryItems \cup {"print_bbox", "print_counts"}

\* C1: once the table is flattened no cell of a non-geometry column is a
\* list: a cell that was a non-empty list holds the list's first element and
\* a cell that was an empty list has become null.
C1_NoListAfterFlatten ==
    FlattenDone =>
        \A i \in 1..Len(streets_gdf.rows) : \A c \in NonGeometry(streets_gdf) :
            LET before == pre_flatten.rows[i][c]
                after == streets_gdf.rows[i][c]
            IN /\ ~IsList(after)
               /\ (IsList(before) /\ Len(before.items) > 0) => after = before.items[1]
               /\ (IsList(before) /\ Len(before.items) = 0) => after = Null

\* C2: the columns selected, and the property keys written, are exactly the
\* preferred columns that the fetched edge table has.
C2_ColumnsAreIntersection ==
    /\ Did("select") =>
          Range(streets_gdf.columns) = Range(keep_cols) \cap Range(edges_gdf.columns)
    /\ WriteDone =>
          \A i \in 1..Len(file.features) :
              DOMAIN file.features[i].properties =
                  (Range(keep_cols) \cap Range(edges_gdf.columns)) \ {"geometry"}

\* a written table where a non-preferred column was fetched, one preferred
\* column was fetched and another was not
C2_Witness ==
    /\ pc = "done"
    /\ "osmid" \in Range(edges_gdf.columns)
    /\ "geometry" \in Range(edges_gdf.columns)
    /\ "highway" \notin Range(edges_gdf.columns)
    /\ Range(streets_gdf.columns) = {"geometry", "name"}

\* C3: a run whose fetch raised ended with a nonzero status after a single
\* fetch attempt, never reached makedirs or the write, and left the output
\* directory and the output file as they were when the run started.
C3_FetchFailureLeavesDisk ==
    FailedAt("fetch") =>
        /\ exit_code = <<1>>
        /\ trace = <<"print_bbox", "fetch">>
        /\ dir = dir0
        /\ file = file0

\* the fetch failed while an earlier output file was on disk
C3_Witness == FailedAt("fetch") /\ file0 = Stale /\ file = Stale

\* C4: the number of features written, and the feature count reported, equal
\* the edge count of the fetched graph.
C4_FeatureCountIsEdgeCount ==
    /\ WriteDone =>
          /\ Len(file.features) = number_of_edges(G)
          /\ Len(file.features) = edge_count
    /\ (pc \in {"types", "done"} \/ FailedAt("print_types")) =>
          feature_count = number_of_edges(G)

\* three edges, one of them without a geometry, were written and counted
C4_Witness ==
    /\ pc = "done"
    /\ feature_count = MaxEdges
    /\ Len(file.features) = MaxEdges
    /\ \E i \in 1..Len(file.features) : file.features[i].geometry = Null

C6_FlattenFrame ==
    FlattenDone =>
        /\ streets_gdf.columns = pre_flatten.columns
        /\ Len(streets_gdf.rows) = Len(pre_flatten.rows)
        /\ \A i \in 1..Len(streets_gdf.rows) : \A c \in Range(streets_gdf.columns) :
              LET before == pre_flatten.rows[i][c]
                  after == streets_gdf.rows[i][c]
              IN /\ (c = "geometry" \/ ~IsList(before) \/ before.items = <<>>)
                        => after = before
                 /\ (c # "geometry" /\ IsList(before) /\ before.items # <<>>)
                        => after = before.items[1]

\* the three edges of the example: highway is ["residential", "tertiary"],
\* "primary" and missing; the flattened cells are residential, primary, null
C6_Witness ==
    /\ FlattenDone
    /\ Len(pre_flatten.rows) = 3
    /\ "highway" \in Range(pre_flatten.columns)
    /\ pre_flatten.rows[1]["highway"] = Lst(<<Str("residential"), Str("tertiary")>>)
    /\ pre_flatten.rows[2]["highway"] = Str("primary")
    /\ pre_flatten.rows[3]["highway"] = Null
    /\ streets_gdf.rows[1]["highway"] = Str("residential")
    /\ streets_gdf.rows[2]["highway"] = Str("primary")
    /\ streets_gdf.rows[3]["highway"] = Null

\* C7: whenever the write is about to start or has been attempted the
\* output directory exists; a run does not fail in makedirs when the
\* directory was there already; a completed write leaves exactly the rows
\* of this run in the file, whatever was there before.
C7_DirExistsBeforeWrite ==
    /\ (pc = "write" \/ Did("write")) => (dir = "dir" /\ Did("makedirs"))
    /\ FailedAt("makedirs") => dir0 # "dir"
    /\ WriteDone => file = to_geojson(streets_gdf)

\* the directory was absent when the run started and the file has been written
C7_Witness == WriteDone /\ dir0 = "absent" /\ dir = "dir" /\ file.state = "complete"

\* C8: a successful run that follows a successful run on the same upstream
\* graph leaves a file with the same feature count, the same property keys
\* and the same geometries as the file the earlier run left.
C8_RerunSameOutput ==
    (pc = "done" /\ prev_out.state = "complete") =>
        /\ Len(file.features) = Len(prev_out.features)
        /\ \A i \in 1..Len(file.features) :
              /\ DOMAIN file.features[i].properties
                    = DOMAIN prev_out.features[i].properties
              /\ file.features[i].geometry = prev_out.features[i].geometry

\* the second of two successful runs is done, over a file the first one wrote
C8_Witness ==
    /\ pc = "done"
    /\ prev_out.state = "complete"
    /\ file0 = prev_out
    /\ Len(file.features) > 1

\* C9 (as stated): every report item is printed after the write completed,
\* and a run whose fetch or write fails prints none of them.
C9_AllReportAfterWrite ==
    /\ \A i \in 1..Len(trace) :
          trace[i] \in ReportItems => \E j \in 1..(i - 1) : trace[j] = "write"
    /\ (FailedAt("fetch") \/ FailedAt("write")) =>
          \A i \in 1..Len(trace) : trace[i] \notin ReportItems

\* C9 (amended): the bounding box is printed first, before the fetch; the
\* node and edge counts are printed right after a successful fetch; feature
\* count, path, size and the highway breakdown are printed only after the
\* write completed, the breakdown only when the highway column is there.  A
\* run whose fetch fails has printed the bounding box only, a run whose
\* write fails the bounding box and the counts only.
C9_SummaryAfterWrite ==
    /\ \A i \in 1..Len(trace) :
          /\ trace[i] \in SummaryItems =>
                (WriteDone /\ \E j \in 1..(i - 1) : trace[j] = "write")
          /\ trace[i] = "print_bbox" => i = 1
          /\ trace[i] = "print_counts" => (i > 1 /\ trace[i - 1] = "fetch")
    /\ Did("print_types") => "highway" \in Range(streets_gdf.columns)
    /\ Did("fetch") => Did("print_bbox")
    /\ Did("convert") => Did("print_counts")
    /\ FailedAt("fetch") => { trace[i] : i \in 1..Len(trace) } \cap ReportItems
                               = {"print_bbox"}
    /\ FailedAt("write") => { trace[i] : i \in 1..Len(trace) } \cap ReportItems
                               = {"print_bbox", "print_counts"}
    /\ pc = "done" =>
          SummaryItems \ {"print_types"} \subseteq { trace[i] : i \in 1..Len(trace) }

\* a run that wrote the file and printed the whole report
C9_Witness == pc = "done" /\ Did("print_types") /\ Did("print_wrote")

\* C10: the steps of a run are attempted in the one fixed order, each at most
\* once; a run that ended has status 0 exactly when every step completed and
\* status 1 otherwise; once a run has ended none of its steps executes.
C10_Order ==
    /\ IsPrefix(trace, FullTrace)
    /\ exit_code \in {<<>>, <<0>>, <<1>>}
    /\ (exit_code # <<>>) <=> (pc \in {"done", "failed"})
    /\ pc = "failed" => exit_code = <<1>>
    /\ pc = "done" => exit_code = <<0>>
    /\ exit_code = <<0>> =>
          \A s \in {"fetch", "convert", "select", "flatten", "makedirs", "write",
                    "print_wrote"} : Did(s)

C10_Ended == exit_code # <<>> => (pc' = "print_bbox" /\ trace' = <<>>)

C10_StrictSequence == []C10_Order /\ [][C10_Ended]_vars

\* a run that failed in makedirs after the four steps before it
C10_Witness ==
    /\ FailedAt("makedirs")
    /\ trace = <<"print_bbox", "fetch", "print_counts", "convert", "select",
                 "flatten", "makedirs">>

====
